---- MODULE Spec2Model ----
(***************************************************************************)
(* A model of the windborne-viewer ingestion pipeline:                     *)
(*   api/windborne  normalizeRow, fetchLast24h                             *)
(*   api/openmeteo  fetchWinds, angleDelta, computeRisk, haversineMeters,  *)
(*                  bearingDeg                                             *)
(*   App            enrichInBatches, load, the refresh timer               *)
(*                                                                         *)
(* Numbers.  Latitudes, longitudes, wind speeds and directions are whole   *)
(* numbers here; timestamps are whole seconds.  A JS value that may be     *)
(* absent is a record [k, v, s]: k is its kind, v its number, s its text.  *)
(***************************************************************************)
EXTENDS Integers, Sequences, FiniteSets, TLC

(***************************************************************************)
(* JSON values and the JS conversions the code applies to them.            *)
(***************************************************************************)
Undef == [k |-> "undef", v |-> 0, s |-> ""]
Null == [k |-> "null", v |-> 0, s |-> ""]
NaN == [k |-> "nan", v |-> 0, s |-> ""]
\* 1e999 in a JSON body parses to Infinity
Inf == [k |-> "inf", v |-> 0, s |-> ""]
Num(n) == [k |-> "num", v |-> n, s |-> ""]
\* a string that is not the text of a number
Str(t) == [k |-> "str", v |-> 0, s |-> t]

\* x ?? y
Coalesce(x, y) == IF x.k \in {"undef", "null"} THEN y ELSE x

\* x != null
Present(x) == x.k \notin {"undef", "null"}

\* Number(x): undefined and text give NaN, null gives 0
ToNumber(x) ==
  CASE x.k = "num" -> x
    [] x.k = "null" -> Num(0)
    [] x.k = "inf" -> Inf
    [] OTHER -> NaN

\* Number.isFinite(x), x a number
IsFinite(x) == x.k = "num"

DigitStr == <<"0", "1", "2", "3", "4", "5", "6", "7", "8", "9">>

\* String(x) of an id value
StringOf(x) ==
  CASE x.k = "str" -> x.s
    [] x.k = "num" /\ x.v \in 0..9 -> DigitStr[x.v + 1]
    [] x.k = "inf" -> "Infinity"
    [] x.k = "nan" -> "NaN"
    [] x.k = "null" -> "null"
    [] OTHER -> "undefined"

\* `b${rowIndex}`
BId(rowIndex) ==
  <<"b0", "b1", "b2", "b3", "b4", "b5", "b6", "b7", "b8", "b9", "b10",
    "b11">>[rowIndex + 1]

(***************************************************************************)
(* Rows of an hourly snapshot.  A keyed record carries the keys the code   *)
(* probes; a positional row carries its elements; any other JSON value     *)
(* (null, a number, a text) has shape "other".                             *)
(***************************************************************************)
NoKeys ==
  [id |-> Undef, balloon_id |-> Undef, identifier |-> Undef, name |-> Undef,
   ID |-> Undef, lat |-> Undef, latitude |-> Undef, lon |-> Undef,
   lng |-> Undef, longitude |-> Undef, ts |-> Undef, timestamp |-> Undef,
   time |-> Undef]

ObjRow(f) == [shape |-> "obj", f |-> f, elems |-> <<>>]
ArrRow(e) == [shape |-> "arr", f |-> NoKeys, elems |-> e]
OtherRow == [shape |-> "other", f |-> NoKeys, elems |-> <<>>]

\* the result of a rejected row
Rejected == [ok |-> FALSE, id |-> "", lat |-> 0, lon |-> 0, ts |-> 0]

\* Math.floor(Date.now() / 1000) - hourIndex * 3600
SynthTs(now, hourIndex) == now - hourIndex * 3600

\* row.ts ?? row.timestamp ?? row.time ?? null, then
\* Number.isFinite(Number(tsRaw)) ? Number(tsRaw) : synthesized
KeyedTs(f, now, hourIndex) ==
  LET tsRaw == Coalesce(Coalesce(Coalesce(f.ts, f.timestamp), f.time), Null)
  IN  IF IsFinite(ToNumber(tsRaw)) THEN ToNumber(tsRaw).v
      ELSE SynthTs(now, hourIndex)

\* Number.isFinite(lat) && Number.isFinite(lon)
CoordsOk(lat, lon) == IsFinite(lat) /\ IsFinite(lon)

normalizeRow(row, hourIndex, rowIndex, now) ==
  IF row.shape = "obj" THEN
    LET f == row.f
        id == Coalesce(Coalesce(Coalesce(Coalesce(Coalesce(f.id, f.balloon_id),
                f.identifier), f.name), f.ID), Str(BId(rowIndex)))
        lat == ToNumber(Coalesce(f.lat, f.latitude))
        lon == ToNumber(Coalesce(Coalesce(f.lon, f.lng), f.longitude))
        ts == KeyedTs(f, now, hourIndex)
    IN  IF CoordsOk(lat, lon)
        THEN [ok |-> TRUE, id |-> StringOf(id), lat |-> lat.v, lon |-> lon.v,
              ts |-> ts]
        ELSE Rejected
  ELSE IF row.shape = "arr" /\ Len(row.elems) >= 2 THEN
    LET lat == ToNumber(row.elems[1])
        lon == ToNumber(row.elems[2])
    IN  IF ~CoordsOk(lat, lon) THEN Rejected
        ELSE [ok |-> TRUE, id |-> BId(rowIndex), lat |-> lat.v, lon |-> lon.v,
              ts |-> SynthTs(now, hourIndex)]
  ELSE Rejected

(***************************************************************************)
(* fetchLast24h: the 24 hourly fetches and the grouping of their rows.     *)
(***************************************************************************)
HOURS == 24

\* The promise of one hour: fetch(...).then(r => { if (!r.ok) throw ...;
\* return r.json() }).  resp.net is "err" when fetch itself fails, resp.ok
\* is r.ok, resp.body is "bad" (not JSON), "nonarray" or "array".
HourPromise(resp) ==
  IF resp.net = "err" \/ ~resp.ok \/ resp.body = "bad"
  THEN [status |-> "rejected", isArray |-> FALSE, value |-> <<>>]
  ELSE [status |-> "fulfilled", isArray |-> resp.body = "array",
        value |-> IF resp.body = "array" THEN resp.rows ELSE <<>>]

\* Promise.all in its place: one rejected hour rejects the whole
PromiseAll(resps) ==
  [status |-> IF \E h \in DOMAIN resps : HourPromise(resps[h]).status = "rejected"
              THEN "rejected" ELSE "fulfilled",
   value |-> [h \in DOMAIN resps |-> HourPromise(resps[h])]]

\* Promise.allSettled never rejects: it resolves with every outcome
AllSettled(resps) ==
  [status |-> "fulfilled", value |-> [h \in DOMAIN resps |-> HourPromise(resps[h])]]

\* res.status !== "fulfilled" || !Array.isArray(res.value)
HourSkipped(res) == res.status # "fulfilled" \/ ~res.isArray

\* an integer-like property name: Object.keys lists these first, ascending
IsIndexKey(s) == \E n \in 1..Len(DigitStr) : DigitStr[n] = s
IndexKeyValue(s) == CHOOSE n \in 0..9 : DigitStr[n + 1] = s

HasKey(byId, id) == \E i \in 1..Len(byId) : byId[i].id = id

\* where Object.keys places a new property name
KeyPosition(byId, id) ==
  IF IsIndexKey(id)
  THEN 1 + Cardinality({i \in 1..Len(byId) :
                          /\ IsIndexKey(byId[i].id)
                          /\ IndexKeyValue(byId[i].id) < IndexKeyValue(id)})
  ELSE Len(byId) + 1

\* (byId[n.id] ||= []).push({lat, lon, ts}); byId is kept in Object.keys order
PushPoint(byId, n) ==
  LET p == [lat |-> n.lat, lon |-> n.lon, ts |-> n.ts]
  IN  IF HasKey(byId, n.id)
      THEN [i \in 1..Len(byId) |->
              IF byId[i].id = n.id
              THEN [byId[i] EXCEPT !.points = Append(@, p)]
              ELSE byId[i]]
      ELSE LET at == KeyPosition(byId, n.id)
           IN  SubSeq(byId, 1, at - 1) \o <<[id |-> n.id, points |-> <<p>>]>>
                 \o SubSeq(byId, at, Len(byId))

\* Date.now() as read while hour h is processed: the clock may pass a second
\* boundary during the loop, before hour tickAt
ClockAt(now, tickAt, h) == IF h >= tickAt THEN now + 1 ELSE now

\* arr.forEach((raw, rowIdx) => ...) over rows rowIdx+1 .. Len(arr)
RECURSIVE RowsFrom(_, _, _, _, _)
RowsFrom(acc, arr, hourIdx, rowIdx, now) ==
  IF rowIdx >= Len(arr) THEN acc
  ELSE LET n == normalizeRow(arr[rowIdx + 1], hourIdx, rowIdx, now)
       IN  RowsFrom(IF n.ok
                    THEN [acc EXCEPT !.keptRows = @ + 1,
                                     !.byId = PushPoint(@, n)]
                    ELSE acc,
                    arr, hourIdx, rowIdx + 1, now)

\* the callback counting as raw only the rows it keeps
HourStepKeptOnly(acc, res, hourIdx, now) ==
  IF HourSkipped(res) THEN acc
  ELSE LET out == RowsFrom(acc, res.value, hourIdx, 0, now)
       IN  [out EXCEPT !.totalRows = out.keptRows]

\* one step of results.forEach((res, hourIdx) => ...)
HourStep(acc, res, hourIdx, now) ==
  IF HourSkipped(res) THEN acc
  ELSE RowsFrom([acc EXCEPT !.totalRows = @ + Len(res.value)],
                res.value, hourIdx, 0, now)

RECURSIVE HoursFrom(_, _, _, _, _)
HoursFrom(acc, results, hourIdx, now, tickAt) ==
  IF hourIdx >= HOURS THEN acc
  ELSE HoursFrom(HourStep(acc, results[hourIdx], hourIdx,
                          ClockAt(now, tickAt, hourIdx)),
                 results, hourIdx + 1, now, tickAt)

\* an insertion that places p before the points of its own timestamp: the
\* sort it gives reverses ties
RECURSIVE InsertBeforeEqual(_, _)
InsertBeforeEqual(sorted, p) ==
  IF sorted = <<>> THEN <<p>>
  ELSE IF sorted[Len(sorted)].ts < p.ts THEN Append(sorted, p)
  ELSE Append(InsertBeforeEqual(SubSeq(sorted, 1, Len(sorted) - 1), p),
              sorted[Len(sorted)])

\* .sort((a, b) => a.ts - b.ts): a stable sort
RECURSIVE InsertByTs(_, _)
InsertByTs(sorted, p) ==
  IF sorted = <<>> THEN <<p>>
  ELSE IF sorted[Len(sorted)].ts <= p.ts THEN Append(sorted, p)
  ELSE Append(InsertByTs(SubSeq(sorted, 1, Len(sorted) - 1), p),
              sorted[Len(sorted)])

RECURSIVE SortFrom(_, _, _)
SortFrom(sorted, pts, i) ==
  IF i > Len(pts) THEN sorted
  ELSE SortFrom(InsertByTs(sorted, pts[i]), pts, i + 1)

\* the points left in the order they were pushed
NoSort(pts) == pts

SortByTs(pts) == SortFrom(<<>>, pts, 1)

\* .filter(p => !seen.has(`${p.ts}`) && seen.add(...)): the first point of
\* each timestamp is kept
RECURSIVE DedupeFrom(_, _, _)
DedupeFrom(kept, pts, i) ==
  IF i > Len(pts) THEN kept
  ELSE DedupeFrom(IF \E j \in 1..Len(kept) : kept[j].ts = pts[i].ts
                  THEN kept ELSE Append(kept, pts[i]),
                  pts, i + 1)

DedupeByTs(pts) == DedupeFrom(<<>>, pts, 1)

\* the loop without its filter
SortOnly(pts) == SortByTs(pts)

\* the "sort/dedupe per id" loop
SortDedupe(pts) == DedupeByTs(SortByTs(pts))

\* fetchLast24h after the await: results is the settled array
BuildResult(results, now, tickAt) ==
  LET acc == HoursFrom([byId |-> <<>>, totalRows |-> 0, keptRows |-> 0],
                       results, 0, now, tickAt)
      byId == [i \in 1..Len(acc.byId) |->
                 [id |-> acc.byId[i].id,
                  points |-> SortDedupe(acc.byId[i].points)]]
  IN  [byId |-> byId,
       stats |-> [raw |-> acc.totalRows, kept |-> acc.keptRows,
                  balloons |-> Len(byId)]]

(***************************************************************************)
(* Geo math.  haversineMeters and bearingDeg are evaluated here on the     *)
(* coordinates the model's rows carry: the values are those of the JS      *)
(* formulas, rounded to the metre and to the degree.                       *)
(***************************************************************************)
haversineMeters(a, b) ==
  LET q == <<a.lat, a.lon, b.lat, b.lon>>
  IN  CASE a.lat = b.lat /\ a.lon = b.lon -> 0
        [] q \in {<<0, 0, 0, 1>>, <<0, 1, 0, 0>>} -> 111195
        [] q \in {<<0, 0, 3, 0>>, <<3, 0, 0, 0>>} -> 333585
        [] q \in {<<0, 1, 3, 0>>, <<3, 0, 0, 1>>} -> 351613
        [] q \in {<<0, 0, 95, 200>>, <<95, 200, 0, 0>>} -> 9485176
        [] q \in {<<0, 1, 95, 200>>, <<95, 200, 0, 1>>} -> 9481930
        [] q \in {<<3, 0, 95, 200>>, <<95, 200, 3, 0>>} -> 9151741

bearingDeg(a, b) ==
  LET q == <<a.lat, a.lon, b.lat, b.lon>>
  IN  CASE a.lat = b.lat /\ a.lon = b.lon -> 0
        [] q = <<0, 0, 0, 1>> -> 90
        [] q = <<0, 1, 0, 0>> -> 270
        [] q = <<0, 0, 3, 0>> -> 0
        [] q = <<3, 0, 0, 0>> -> 180
        [] q = <<0, 1, 3, 0>> -> 342
        [] q = <<3, 0, 0, 1>> -> 162
        [] q \in {<<0, 0, 95, 200>>, <<0, 1, 95, 200>>, <<3, 0, 95, 200>>} -> 2
        [] q \in {<<95, 200, 0, 0>>, <<95, 200, 3, 0>>} -> 20
        [] q = <<95, 200, 0, 1>> -> 19

(***************************************************************************)
(* Risk.  A drift speed is the exact ratio mul*num/den km/h (den > 0, mul  *)
(* 1 or 1000), or absent.  Math.round(x) is floor(x + 1/2).                *)
(***************************************************************************)
NoDrift == [has |-> FALSE, mul |-> 1, num |-> 0, den |-> 1]
Drift(mul, num, den) == [has |-> TRUE, mul |-> mul, num |-> num, den |-> den]

\* a cap that is not applied
Uncapped(x, y) == x

Min(x, y) == IF x <= y THEN x ELSE y
\* a floor that is not applied
Unfloored(x, y) == y

Max(x, y) == IF x >= y THEN x ELSE y
Abs(x) == IF x >= 0 THEN x ELSE -x

\* the JS remainder: the sign of the dividend
JsRem(x, m) == IF x >= 0 THEN x % m ELSE -((-x) % m)

\* angleDelta without Math.abs
angleDeltaNoAbs(a, b) ==
  IF ~Present(a) \/ ~Present(b) THEN Undef
  ELSE LET d == JsRem(a.v - b.v, 360)
       IN  Num(IF d > 180 THEN 360 - d ELSE d)

\* angleDelta without the fold of the angles over 180
angleDeltaNoFold(a, b) ==
  IF ~Present(a) \/ ~Present(b) THEN Undef
  ELSE Num(Abs(a.v - b.v) % 360)

\* angleDelta(a, b): Undef when either is null or undefined
angleDelta(a, b) ==
  IF ~Present(a) \/ ~Present(b) THEN Undef
  ELSE LET d == Abs(a.v - b.v) % 360
       IN  Num(IF d > 180 THEN 360 - d ELSE d)

\* computeRisk({driftKmh, headingDeg, dir700, dir500, wind700, wind500})
\* 90 * (0.4*d + 0.4*m + 0.2*s) * 100 is the sum of
\*   dN = 3600 * min(drift / 100, 1) = min(36 * drift, 3600),
\*   mN = 40 * min(mismatch, 90) and sN = 60 * min(shear, 30);
\* mN and sN are whole, so the rounded value needs only the floor of dN
computeRisk(driftKmh, headingDeg, dir700, dir500, wind700, wind500) ==
  IF ~driftKmh.has THEN Undef
  ELSE LET useDir == Coalesce(dir700, dir500)
           mismatch == angleDelta(headingDeg, useDir)
           shear == IF Present(wind700) /\ Present(wind500)
                    THEN Num(Abs(wind700.v - wind500.v)) ELSE Undef
           capped == IF driftKmh.mul = 1
                     THEN driftKmh.num >= 100 * driftKmh.den
                     ELSE 10 * driftKmh.num >= driftKmh.den
           dN == IF capped THEN 3600
                 ELSE (36 * driftKmh.mul * driftKmh.num) \div driftKmh.den
           mN == IF Present(mismatch) THEN 40 * Min(mismatch.v, 90) ELSE 0
           sN == IF Present(shear) THEN 60 * Min(shear.v, 30) ELSE 0
       IN  Num((dN + mN + sN + 45) \div 90)

(***************************************************************************)
(* fetchWinds.  A wind response: net is "err" when fetch throws, ok is     *)
(* r.ok, status the HTTP status, body is "bad" (not JSON), "null" (JSON    *)
(* without an object), or "obj"; n is hourly.time.length (0 when hourly or *)
(* time is missing); w500.. are the last entries of the four series.       *)
(***************************************************************************)
WindKeys == {"wind500", "dir500", "wind700", "dir700"}

\* An object of wind and risk fields: keys are the properties it has (a
\* property may be there and hold undefined)
Fields(keys, w500, d500, w700, d700, risk) ==
  [keys |-> keys, wind500 |-> w500, dir500 |-> d500, wind700 |-> w700,
   dir700 |-> d700, risk |-> risk]

\* {}
NoFields == Fields({}, Undef, Undef, Undef, Undef, Undef)

WindResp(net, status, body, n, w500, d500, w700, d700) ==
  [net |-> net, status |-> status, ok |-> status \in 200..299, body |-> body,
   n |-> n, w500 |-> w500, d500 |-> d500, w700 |-> w700, d700 |-> d700]

\* fetchWinds throwing on a failed transport or status, with no catch
fetchWindsThrows(resp) ==
  IF resp.net = "err" \/ ~resp.ok
  THEN [status |-> "rejected", value |-> NoFields]
  ELSE IF resp.body # "obj" \/ resp.n = 0
  THEN [status |-> "fulfilled", value |-> NoFields]
  ELSE [status |-> "fulfilled",
        value |-> Fields(WindKeys, resp.w500, resp.d500, resp.w700,
                         resp.d700, Undef)]

\* the promise fetchWinds returns: every failure is caught and gives {}
fetchWinds(resp) ==
  IF resp.net = "err" THEN [status |-> "fulfilled", value |-> NoFields]
  ELSE IF ~resp.ok THEN [status |-> "fulfilled", value |-> NoFields]
  ELSE IF resp.body # "obj" THEN [status |-> "fulfilled", value |-> NoFields]
  ELSE IF resp.n = 0 THEN [status |-> "fulfilled", value |-> NoFields]
  ELSE [status |-> "fulfilled",
        value |-> Fields(WindKeys, resp.w500, resp.d500, resp.w700,
                         resp.d700, Undef)]

\* a wind call that the service or the transport fails
WindFailed(resp) ==
  resp.net = "err" \/ ~resp.ok \/ resp.body # "obj" \/ resp.n = 0

(***************************************************************************)
(* Trajectories as load builds them (phase 1).  gapM is _gapKm in metres.  *)
(* _ageLabel, a text for display, is left out.                             *)
(***************************************************************************)
STALE_SEC == 3600
GAP_KM == 300

\* Math.max((last.ts - prev.ts) / 3600, 1e-6), then distM / 1000 / dtH:
\* with dt in whole seconds, dt / 3600 is above 1e-6 exactly when dt >= 1,
\* and the speed is then 3.6 * distM / dt; otherwise it is distM / 1000 * 1e6
\* the speed taken per second of dt, not per hour
DriftPerSecond(distM, dt) == Drift(1, distM, 1000 * dt)

DriftOf(distM, dt) ==
  IF dt >= 1 THEN Drift(1, 18 * distM, 5 * dt)
  ELSE Drift(1000, distM, 1)

Track(id, points, nowSec) ==
  LET n == Len(points)
      ageSec == IF n > 0 THEN Num(Max(0, nowSec - points[n].ts)) ELSE Null
      distM == IF n >= 2 THEN haversineMeters(points[n - 1], points[n]) ELSE 0
  IN  [id |-> id, points |-> points,
       driftKmh |-> IF n >= 2
                    THEN DriftOf(distM, points[n].ts - points[n - 1].ts)
                    ELSE NoDrift,
       headingDeg |-> IF n >= 2 THEN Num(bearingDeg(points[n - 1], points[n]))
                      ELSE Undef,
       risk |-> Undef,
       wind500 |-> Undef, dir500 |-> Undef, wind700 |-> Undef,
       dir700 |-> Undef,
       stale |-> ageSec.k = "num" /\ ageSec.v > STALE_SEC,
       ageSec |-> ageSec,
       gapM |-> distM,
       gap |-> distM > GAP_KM * 1000]

\* Object.entries(byId).map(([id, points]) => ...)
TrackList(byId, nowSec) ==
  [i \in 1..Len(byId) |-> Track(byId[i].id, byId[i].points, nowSec)]

\* { ...tr, ...o }: the properties o has replace those of tr
Spread(tr, o) ==
  [tr EXCEPT !.wind500 = IF "wind500" \in o.keys THEN o.wind500 ELSE @,
             !.dir500 = IF "dir500" \in o.keys THEN o.dir500 ELSE @,
             !.wind700 = IF "wind700" \in o.keys THEN o.wind700 ELSE @,
             !.dir700 = IF "dir700" \in o.keys THEN o.dir700 ELSE @,
             !.risk = IF "risk" \in o.keys THEN o.risk ELSE @]

(***************************************************************************)
(* enrichInBatches.  A task is one call of the async callback of           *)
(* batch.map: pending while it awaits fetchWinds, then settled.            *)
(***************************************************************************)
\* items.slice(i, i + 1): one item taken where the loop steps by batchSize
BatchOfOne(items, i, batchSize) ==
  SubSeq(items, i + 1, Min(i + 1, Len(items)))

\* items.slice(i, i + batchSize)
BatchOf(items, i, batchSize) ==
  SubSeq(items, i + 1, Min(i + batchSize, Len(items)))

\* the callback up to its await: a trajectory without points returns
\* [tr.id, {}] at once
TaskStart(tr) ==
  [st |-> IF tr.points = <<>> THEN "fulfilled" ELSE "pending",
   id |-> tr.id, patch |-> NoFields]

\* the callback after its await; w is the settled promise of fetchWinds
TaskResume(tr, w) ==
  IF w.status # "fulfilled"
  THEN [st |-> "rejected", id |-> tr.id, patch |-> NoFields]
  ELSE LET m == Spread(tr, w.value)
           risk == computeRisk(m.driftKmh, m.headingDeg, m.dir700, m.dir500,
                               m.wind700, m.wind500)
       IN  [st |-> "fulfilled", id |-> tr.id,
            patch |-> [w.value EXCEPT !.keys = @ \cup {"risk"},
                                      !.risk = risk]]

\* Promise.race in its place: the first settled task ends the wait
AnyTaskSettled(tasks) == \E k \in 1..Len(tasks) : tasks[k].st # "pending"

\* Promise.allSettled(batch.map(...)) resolves when no task is pending
BatchSettled(tasks) == \A k \in 1..Len(tasks) : tasks[k].st # "pending"

\* a batch that drops every result when one of its wind results is empty
BatchAllOrNothing(tasks) ==
  IF \E k \in 1..Len(tasks) : tasks[k].patch.keys \cap WindKeys = {}
  THEN [k \in 1..Len(tasks) |-> [tasks[k] EXCEPT !.patch = NoFields]]
  ELSE tasks

\* the value of Promise.allSettled: every task's own outcome, in order
BatchEntries(tasks) == tasks

\* the head of the for loop: start the batch at e.i, or return out.
\* calls[j] follows the wind call of item j; groups lists the batches begun.
LoopFrom(e) ==
  IF e.i < Len(e.items)
  THEN LET batch == BatchOf(e.items, e.i, e.batchSize)
           tasks == [k \in 1..Len(batch) |-> TaskStart(batch[k])]
       IN  [e EXCEPT !.tasks = tasks,
                     !.groups = Append(@, Len(batch)),
                     !.calls = [j \in 1..Len(e.items) |->
                                  IF /\ j - e.i \in 1..Len(batch)
                                     /\ tasks[j - e.i].st = "pending"
                                  THEN "inflight" ELSE e.calls[j]]]
  ELSE [e EXCEPT !.pc = "returned", !.tasks = <<>>]

IdleEnr ==
  [pc |-> "idle", items |-> <<>>, batchSize |-> 0, i |-> 0, tasks |-> <<>>,
   out |-> <<>>, calls |-> <<>>, groups |-> <<>>, failed |-> <<>>]

\* enrichInBatches(items, batchSize) up to its first await
enrichInBatches(items, batchSize) ==
  LoopFrom([pc |-> "awaiting", items |-> items, batchSize |-> batchSize,
            i |-> 0, tasks |-> <<>>, out |-> <<>>,
            calls |-> [j \in 1..Len(items) |-> "none"],
            groups |-> <<>>,
            failed |-> [j \in 1..Len(items) |-> FALSE]])

\* a wind call settles: task k of the batch in progress resumes
SettleTask(e, k, resp) ==
  [e EXCEPT !.tasks[k] = TaskResume(e.items[e.i + k], fetchWinds(resp)),
            !.calls[e.i + k] = "settled",
            !.failed[e.i + k] = WindFailed(resp)]

\* the await of the batch resumes: out.push(...res), i += batchSize
AfterBatch(e) ==
  LoopFrom([e EXCEPT !.out = @ \o BatchEntries(e.tasks),
                     !.i = @ + e.batchSize])

(***************************************************************************)
(* Inputs: the clock, the rows an hour may carry, the answers of the       *)
(* snapshot source and of the wind service.                                *)
(***************************************************************************)
\* Math.floor(Date.now() / 1000) when the first cycle's fetches settle
Now == 90000

\* rows in the bodies of one cycle, all hours together
MaxRows == 3

RowA == ObjRow([NoKeys EXCEPT !.id = Str("A"), !.lat = Num(0),
                              !.lon = Num(0), !.ts = Num(72000)])
RowNoIdNoTime == ObjRow([NoKeys EXCEPT !.latitude = Num(0), !.lng = Num(1)])
RowATextTime == ObjRow([NoKeys EXCEPT !.ID = Str("A"), !.lat = Num(3),
                                      !.longitude = Num(0),
                                      !.timestamp = Str("soon")])
RowFar == ObjRow([NoKeys EXCEPT !.balloon_id = Num(7), !.lat = Num(95),
                                !.lon = Num(200), !.time = Num(90500)])
RowPos == ArrRow(<<Num(3), Num(0), Num(12)>>)
RowNoLat == ObjRow([NoKeys EXCEPT !.name = Str("A"), !.lon = Num(0)])

\* the rows by name: the state keeps the names
RowNames == {"A", "NoIdNoTime", "ATextTime", "Far", "Pos", "NoLat"}

RowNamed(name) ==
  CASE name = "A" -> RowA
    [] name = "NoIdNoTime" -> RowNoIdNoTime
    [] name = "ATextTime" -> RowATextTime
    [] name = "Far" -> RowFar
    [] name = "Pos" -> RowPos
    [] name = "NoLat" -> RowNoLat

RowLists(n) == UNION {[1..m -> RowNames] : m \in 0..n}

HourResp(net, ok, body, rows) ==
  [net |-> net, ok |-> ok, body |-> body, rows |-> rows]

HourNetErr == HourResp("err", FALSE, "bad", <<>>)
HourHttpErr == HourResp("ok", FALSE, "array", <<>>)
HourBadJson == HourResp("ok", TRUE, "bad", <<>>)
HourNonArray == HourResp("ok", TRUE, "nonarray", <<>>)
HourRows(rows) == HourResp("ok", TRUE, "array", rows)

\* the hours whose fetch may succeed; every other hour fails, in one of
\* the four ways by turns
LiveHours == {5, 17}

DeadHourResp(h) ==
  CASE h % 4 = 0 -> HourNetErr
    [] h % 4 = 1 -> HourHttpErr
    [] h % 4 = 2 -> HourBadJson
    [] OTHER -> HourNonArray

\* what a live hour answers: a failure, or a body of the rows named
Failed(how) == [fail |-> how, rows |-> <<>>]
Rows(names) == [fail |-> "", rows |-> names]

LiveResp(a) ==
  CASE a.fail = "net" -> HourNetErr
    [] a.fail = "nonarray" -> HourNonArray
    [] OTHER -> HourRows([i \in 1..Len(a.rows) |-> RowNamed(a.rows[i])])

\* the 24 answers of a cycle
VectorOf(live) ==
  [h \in 0..(HOURS - 1) |->
     IF h \in LiveHours THEN LiveResp(live[h]) ELSE DeadHourResp(h)]

LiveAnswers(n) ==
  {Failed("net"), Failed("nonarray")} \cup {Rows(r) : r \in RowLists(n)}

\* the answers of the two live hours, at most MaxRows rows between them
Lives ==
  UNION {{[h \in LiveHours |-> IF h = 5 THEN a ELSE b] :
            b \in LiveAnswers(MaxRows - Len(a.rows))} :
         a \in LiveAnswers(MaxRows)}

\* the few answers the overlapping cycles draw from
AppLives ==
  [LiveHours -> {Failed("net"), Rows(<<"Pos">>), Rows(<<"A", "Far">>)}]

\* the second boundary the clock passes: before hour 17, or not at all
\* (HOURS + 1)
TickAts == {17, HOURS + 1}

WindNetErr == WindResp("err", 0, "bad", 0, Undef, Undef, Undef, Undef)
Wind429 == WindResp("ok", 429, "obj", 0, Undef, Undef, Undef, Undef)
Wind500 == WindResp("ok", 500, "bad", 0, Undef, Undef, Undef, Undef)
WindBadJson == WindResp("ok", 200, "bad", 0, Undef, Undef, Undef, Undef)
WindNullBody == WindResp("ok", 200, "null", 0, Undef, Undef, Undef, Undef)
WindNoSeries == WindResp("ok", 200, "obj", 0, Num(10), Num(180), Num(45), Num(270))
WindFull == WindResp("ok", 200, "obj", 3, Num(10), Num(180), Num(45), Num(270))
WindPartial == WindResp("ok", 200, "obj", 3, Null, Num(200), Num(20), Undef)

WindFails ==
  {WindNetErr, Wind429, Wind500, WindBadJson, WindNullBody, WindNoSeries}
WindResps == WindFails \cup {WindFull, WindPartial}

(***************************************************************************)
(* load and the refresh timer.                                             *)
(***************************************************************************)
\* ENRICH_SUBSET is 50 and ENRICH_BATCH 25 in the source.  The model scales
\* them down, keeping two batches to a full subset.
ENRICH_SUBSET == 2
ENRICH_BATCH == 1

\* REFRESH_MS, in seconds
REFRESH_SEC == 300

\* the number of load invocations the model follows
MaxCycles == 2
Cycles == 1..MaxCycles

VARIABLES
  tracks,       \* useState: the published trajectory list
  ingestStats,  \* useState: the published stats, has = FALSE while null
  mounted,      \* the refresh effect has run: the interval timer is set
  loads,        \* loads[c]: the c-th invocation of load
  enr,          \* enr[c]: the invocation of enrichInBatches of load c
  answer,       \* paired runs: what the wind service answers per item
  victim,       \* paired runs: the item whose call is answered 429
  call,         \* a function called on its own: its arguments and result
  hoursBack,    \* useState: the playback window, in hours
  playing,      \* useState: playback is on
  playTimerRef, \* useRef: the id of the playback interval, 0 for null
  intervals     \* the ids of the intervals set and not cleared

\* the playback state
playback == <<hoursBack, playing, playTimerRef, intervals>>

vars ==
  <<tracks, ingestStats, mounted, loads, enr, answer, victim, call,
    hoursBack, playing, playTimerRef, intervals>>

\* Playback
DEFAULT_WINDOW_H == 24
PLAY_STEP_H == 1

\* useState(DEFAULT_WINDOW_H), useState(false), useRef(null)
PlaybackIdle ==
  /\ hoursBack = DEFAULT_WINDOW_H
  /\ playing = FALSE
  /\ playTimerRef = 0
  /\ intervals = {}

\* no function is being called on its own
NoCall == [pc |-> "none"]

NoStats == [has |-> FALSE, raw |-> 0, kept |-> 0, balloons |-> 0]

EmptyResult ==
  [byId |-> <<>>, stats |-> [raw |-> 0, kept |-> 0, balloons |-> 0]]

IdleLoad ==
  [pc |-> "idle", live |-> <<>>, clock |-> 0, tickAt |-> 0,
   fetched |-> EmptyResult, list |-> <<>>, nowSec |-> 0]

Init ==
  /\ tracks = <<>>
  /\ ingestStats = NoStats
  /\ mounted = FALSE
  /\ loads = [c \in Cycles |-> IdleLoad]
  /\ enr = [c \in Cycles |-> IdleEnr]
  /\ answer = <<>>
  /\ victim = 0
  /\ call = NoCall
  /\ PlaybackIdle

\* useEffect(() => { load(); setInterval(load, REFRESH_MS) }, [])
Mount ==
  /\ ~mounted
  /\ mounted' = TRUE
  /\ loads' = [loads EXCEPT ![1].pc = "fetching"]
  /\ UNCHANGED <<tracks, ingestStats, enr, answer, victim, call, playback>>

\* the interval timer fires: load() is called, whatever the earlier
\* invocations are doing
TimerTick(c) ==
  /\ mounted
  /\ loads[c].pc = "idle"
  /\ \A b \in 1..(c - 1) : loads[b].pc # "idle"
  /\ loads' = [loads EXCEPT ![c].pc = "fetching"]
  /\ UNCHANGED <<tracks, ingestStats, mounted, enr, answer, victim, call, playback>>

\* fetchLast24h of load c: the 24 fetches have settled, the live hours
\* with the answers live, and the function runs from its await to its
\* return
FetchSettle(c, live, now, tickAt) ==
  /\ loads[c].pc = "fetching"
  /\ \E resps \in {VectorOf(live)} : \E settled \in {AllSettled(resps)} :
       loads' = [loads EXCEPT ![c] =
         IF settled.status = "fulfilled"
         THEN [@ EXCEPT !.pc = "fetched", !.live = live, !.clock = now,
                        !.tickAt = tickAt,
                        !.fetched = BuildResult(settled.value, now, tickAt)]
         ELSE [@ EXCEPT !.pc = "failed", !.live = live]]
  /\ UNCHANGED <<tracks, ingestStats, mounted, enr, answer, victim, call, playback>>

\* list.slice(0, ENRICH_SUBSET)
Sample(list) == SubSeq(list, 1, Min(ENRICH_SUBSET, Len(list)))

\* load from the return of fetchLast24h to the await of enrichInBatches:
\* phase 1, the three setState calls, and the start of phase 2
LoadPublish(c) ==
  /\ loads[c].pc = "fetched"
  /\ \E nowSec \in {ClockAt(loads[c].clock, loads[c].tickAt, HOURS)} :
     \E list \in {TrackList(loads[c].fetched.byId, nowSec)} :
         /\ tracks' = list
         /\ ingestStats' = [has |-> TRUE,
                            raw |-> loads[c].fetched.stats.raw,
                            kept |-> loads[c].fetched.stats.kept,
                            balloons |-> loads[c].fetched.stats.balloons]
         /\ loads' = [loads EXCEPT ![c].pc = "enriching", ![c].list = list,
                                   ![c].nowSec = nowSec]
         /\ enr' = [enr EXCEPT ![c] =
                      enrichInBatches(Sample(list), ENRICH_BATCH)]
  /\ UNCHANGED <<mounted, answer, victim, call, playback>>

\* the wind call of task k of the batch in progress settles with resp
WindSettle(c, k, resp) ==
  /\ enr[c].pc = "awaiting"
  /\ k \in 1..Len(enr[c].tasks)
  /\ enr[c].tasks[k].st = "pending"
  /\ enr' = [enr EXCEPT ![c] = SettleTask(@, k, resp)]
  /\ UNCHANGED <<tracks, ingestStats, mounted, loads, answer, victim, call, playback>>

\* every task of the batch has settled: the loop goes on
BatchDone(c) ==
  /\ enr[c].pc = "awaiting"
  /\ BatchSettled(enr[c].tasks)
  /\ enr' = [enr EXCEPT ![c] = AfterBatch(@)]
  /\ UNCHANGED <<tracks, ingestStats, mounted, loads, answer, victim, call, playback>>

\* Object.fromEntries(results.filter(r => r.status === "fulfilled")
\*   .map(r => r.value))[id] ?? {}: the last fulfilled entry of that id
PatchFor(out, id) ==
  LET at == {j \in 1..Len(out) : out[j].st = "fulfilled" /\ out[j].id = id}
  IN  IF at = {} THEN NoFields
      ELSE out[CHOOSE j \in at : \A j2 \in at : j2 <= j].patch

\* prev.map(tr => ({ ...tr, ...(patch[tr.id] ?? {}) }))
MergePatch(prev, out) ==
  [i \in 1..Len(prev) |-> Spread(prev[i], PatchFor(out, prev[i].id))]

\* load after the await of enrichInBatches: the patch is merged into
\* whatever list is published by then
LoadMerge(c) ==
  /\ loads[c].pc = "enriching"
  /\ enr[c].pc = "returned"
  /\ tracks' = MergePatch(tracks, enr[c].out)
  /\ loads' = [loads EXCEPT ![c].pc = "done"]
  /\ UNCHANGED <<ingestStats, mounted, enr, answer, victim, call, playback>>

(***************************************************************************)
(* SpecIngest: the first invocation of load up to its publication, over    *)
(* every answer of the snapshot source.                                    *)
(***************************************************************************)
IngestNext ==
  \/ Mount
  \/ /\ loads[1].pc = "fetching"
     /\ \E v \in Lives, t \in TickAts : FetchSettle(1, v, Now, t)
  \/ LoadPublish(1)

SpecIngest == Init /\ [][IngestNext]_vars

(***************************************************************************)
(* Spec: the application, its refresh timer starting further invocations   *)
(* of load while earlier ones are in progress.                             *)
(***************************************************************************)
Next ==
  \/ Mount
  \/ \E c \in Cycles \ {1} : TimerTick(c)
  \/ \E c \in Cycles, v \in AppLives, t \in {HOURS + 1} :
       FetchSettle(c, v, Now + (c - 1) * REFRESH_SEC, t)
  \/ \E c \in Cycles : LoadPublish(c)
  \/ \E c \in Cycles, k \in 1..ENRICH_BATCH, r \in {Wind429, WindFull} :
       WindSettle(c, k, r)
  \/ \E c \in Cycles : BatchDone(c)
  \/ \E c \in Cycles : LoadMerge(c)

Spec == Init /\ [][Next]_vars

(***************************************************************************)
(* SpecEnrich: one call of enrichInBatches(items, batchSize) with items    *)
(* and a batch size of the caller's choice.                                *)
(***************************************************************************)
MaxItems == 10
MaxBatch == 4

\* trajectories without points, with one point (no drift), with two
ItemPoints(kind) ==
  CASE kind = 0 -> <<[lat |-> 0, lon |-> 0, ts |-> Now - 3600],
                     [lat |-> 0, lon |-> 1, ts |-> Now]>>
    [] kind = 1 -> <<[lat |-> 3, lon |-> 0, ts |-> Now]>>
    [] OTHER -> <<>>

\* n items, their kinds by turns from shift on
ItemList(n, shift) ==
  [j \in 1..n |-> Track(BId(j - 1), ItemPoints((j + shift) % 3), Now)]

EnrichCall(c, items, batchSize) ==
  /\ enr[c].pc = "idle"
  /\ enr' = [enr EXCEPT ![c] = enrichInBatches(items, batchSize)]
  /\ UNCHANGED <<tracks, ingestStats, mounted, loads, answer, victim, call, playback>>

EnrichNext ==
  \/ \E n \in 0..MaxItems, b \in 1..MaxBatch, sh \in 0..2 :
       EnrichCall(1, ItemList(n, sh), b)
  \/ \E k \in 1..MaxBatch, r \in WindResps : WindSettle(1, k, r)
  \/ BatchDone(1)

SpecEnrich == Init /\ [][EnrichNext]_vars

(***************************************************************************)
(* SpecPair: two runs of enrichInBatches on the same items.  The wind      *)
(* service gives both runs the same answer for every item but one, the     *)
(* victim, which it answers 429 in the second run.                         *)
(***************************************************************************)
MaxPairItems == 3
MaxPairBatch == 2

NoAnswer == [set |-> FALSE, resp |-> Wind429]

PairWinds == {WindNetErr, Wind429, WindFull, WindPartial}

PairCall(items, batchSize, v) ==
  /\ enr[1].pc = "idle" /\ enr[2].pc = "idle"
  /\ v \in 1..Len(items)
  /\ items[v].points # <<>>
  /\ enr' = [enr EXCEPT ![1] = enrichInBatches(items, batchSize),
                        ![2] = enrichInBatches(items, batchSize)]
  /\ victim' = v
  /\ answer' = [j \in 1..Len(items) |-> NoAnswer]
  /\ UNCHANGED <<tracks, ingestStats, mounted, loads, call, playback>>

PairSettle(c, k, r) ==
  /\ enr[c].pc = "awaiting"
  /\ k \in 1..Len(enr[c].tasks)
  /\ enr[c].tasks[k].st = "pending"
  /\ IF c = 2 /\ enr[c].i + k = victim
     THEN r = Wind429 /\ answer' = answer
     ELSE /\ answer[enr[c].i + k].set => r = answer[enr[c].i + k].resp
          /\ answer' = [answer EXCEPT ![enr[c].i + k] =
                                        [set |-> TRUE, resp |-> r]]
  /\ enr' = [enr EXCEPT ![c] = SettleTask(@, k, r)]
  /\ UNCHANGED <<tracks, ingestStats, mounted, loads, victim, call, playback>>

PairBatchDone(c) ==
  /\ victim # 0
  /\ BatchDone(c)

PairNext ==
  \/ \E n \in 1..MaxPairItems, b \in 1..MaxPairBatch, sh \in 0..2,
        v \in 1..MaxPairItems : PairCall(ItemList(n, sh), b, v)
  \/ \E c \in {1, 2}, k \in 1..MaxPairBatch, r \in PairWinds :
       PairSettle(c, k, r)
  \/ \E c \in {1, 2} : PairBatchDone(c)

SpecPair == Init /\ [][PairNext]_vars

(***************************************************************************)
(* Properties of fetchLast24h (SpecIngest).                                *)
(***************************************************************************)
\* load c holds the result of its fetchLast24h
Fetched(c) == loads[c].pc \in {"fetched", "enriching", "done"}

\* the clock load c read while it processed hour h
ClockOf(c, h) == ClockAt(loads[c].clock, loads[c].tickAt, h)

\* C1: every trajectory fetchLast24h returns has strictly increasing
\* timestamps: ascending order, no timestamp twice.
C1_StrictlyIncreasing ==
  \A c \in Cycles : \A i \in 1..Len(loads[c].fetched.byId) :
    LET pts == loads[c].fetched.byId[i].points
    IN  \A a, b \in 1..Len(pts) : a < b => pts[a].ts < pts[b].ts

\* C1 witness: three rows of one id were accepted, one of them a duplicate
\* timestamp, and the two points left are not in the order they came in
C1_Witness ==
  /\ Fetched(1)
  /\ loads[1].live[5] = Rows(<<"A", "ATextTime">>)
  /\ loads[1].live[17] = Rows(<<"ATextTime">>)
  /\ loads[1].fetched.stats.kept = 3
  /\ Len(loads[1].fetched.byId) = 1
  /\ Len(loads[1].fetched.byId[1].points) = 2

\* C2 (as claimed): every stored point has -90 <= lat <= 90 and
\* -180 <= lon <= 180.
C2_CoordsInRange ==
  \A c \in Cycles : \A i \in 1..Len(loads[c].fetched.byId) :
    LET pts == loads[c].fetched.byId[i].points
    IN  \A a \in 1..Len(pts) :
          /\ -90 <= pts[a].lat /\ pts[a].lat <= 90
          /\ -180 <= pts[a].lon /\ pts[a].lon <= 180

HasTimeKey(row) ==
  Present(row.f.ts) \/ Present(row.f.timestamp) \/ Present(row.f.time)

\* the trajectory of id holds a point with timestamp ts
HasPoint(byId, id, ts) ==
  \E i \in 1..Len(byId) :
    /\ byId[i].id = id
    /\ \E a \in 1..Len(byId[i].points) : byId[i].points[a].ts = ts

\* C3 (as claimed): an accepted keyed row without ts, timestamp and time
\* gives a point with timestamp now - hour_index * 3600.
C3_KeyedRowSynthesizedTs ==
  \A c \in Cycles : \A h \in LiveHours :
    Fetched(c) =>
      \A r \in 1..Len(loads[c].live[h].rows) :
        LET row == RowNamed(loads[c].live[h].rows[r])
            n == normalizeRow(row, h, r - 1, ClockOf(c, h))
        IN  (row.shape = "obj" /\ ~HasTimeKey(row) /\ n.ok) =>
              HasPoint(loads[c].fetched.byId, n.id,
                       ClockOf(c, h) - h * 3600)

\* hours 05 and 17 alone succeed, each with one accepted row, of one id
OneRowEach(c) ==
  /\ Fetched(c)
  /\ loads[c].live[5].fail = "" /\ Len(loads[c].live[5].rows) = 1
  /\ loads[c].live[17].fail = "" /\ Len(loads[c].live[17].rows) = 1
  /\ LET n5 == normalizeRow(RowNamed(loads[c].live[5].rows[1]), 5, 0,
                            ClockOf(c, 5))
         n17 == normalizeRow(RowNamed(loads[c].live[17].rows[1]), 17, 0,
                             ClockOf(c, 17))
     IN  n5.ok /\ n17.ok /\ n5.id = n17.id

PointOf(n) == [lat |-> n.lat, lon |-> n.lon, ts |-> n.ts]

SuccessfulAlone(live) ==
  [h \in 0..(HOURS - 1) |->
     IF h \in LiveHours /\ live[h].fail = "" THEN LiveResp(live[h])
     ELSE HourRows(<<>>)]

\* C5: whatever hours fail, fetchLast24h resolves, and with the result the
\* successful hours alone would give; when all 24 fail that is no
\* trajectory and stats 0/0/0, and load publishes just that.
C5_FailuresIsolated ==
  \A c \in Cycles :
    /\ loads[c].pc # "failed"
    /\ Fetched(c) =>
         /\ loads[c].fetched =
              BuildResult(AllSettled(SuccessfulAlone(loads[c].live)).value,
                          loads[c].clock, loads[c].tickAt)
         /\ (\A h \in LiveHours : loads[c].live[h].fail # "") =>
              /\ loads[c].fetched = EmptyResult
              /\ loads[c].pc = "enriching" =>
                   /\ tracks = <<>>
                   /\ ingestStats = [has |-> TRUE, raw |-> 0, kept |-> 0,
                                     balloons |-> 0]

\* C5 witness: hour 05 failed, hour 17 carried accepted rows, and load has
\* published the one trajectory
C5_Witness ==
  /\ loads[1].pc = "enriching"
  /\ loads[1].live[5].fail = "net"
  /\ loads[1].live[17] = Rows(<<"Pos", "NoLat">>)
  /\ Len(tracks) = 1
  /\ ingestStats = [has |-> TRUE, raw |-> 2, kept |-> 1, balloons |-> 1]

(***************************************************************************)
(* Properties of enrichInBatches (SpecEnrich, SpecPair).                   *)
(***************************************************************************)
\* the batch item j belongs to, batches counted from 1
GroupOf(e, j) == (j - 1) \div e.batchSize + 1

InFlight(e) == {j \in 1..Len(e.items) : e.calls[j] = "inflight"}

\* the entry of item j: in out, or the task of the batch in progress
EntryOf(e, j) ==
  IF j <= Len(e.out) THEN e.out[j]
  ELSE IF j - e.i \in 1..Len(e.tasks) THEN e.tasks[j - e.i]
  ELSE [st |-> "unstarted", id |-> "", patch |-> NoFields]

\* C6: the items are taken in consecutive groups of batchSize; a wind call
\* starts only with its group, a group starts only when no call of an
\* earlier group is in flight, and at most batchSize calls are in flight.
C6_BatchesInTurn ==
  \A c \in Cycles :
    LET e == enr[c]
        n == Len(e.items)
    IN  e.pc # "idle" =>
          /\ Cardinality(InFlight(e)) <= e.batchSize
          /\ \A g \in 1..Len(e.groups) :
               e.groups[g] = Min(e.batchSize, n - (g - 1) * e.batchSize)
          /\ \A j \in 1..n :
               /\ e.calls[j] # "none" => GroupOf(e, j) <= Len(e.groups)
               /\ GroupOf(e, j) < Len(e.groups) => e.calls[j] # "inflight"
          /\ e.pc = "returned" =>
               /\ Len(e.groups) * e.batchSize >= n
               /\ n > 0 => (Len(e.groups) - 1) * e.batchSize < n
               /\ n = 0 => e.groups = <<>>

\* C6 witness: 10 items in batches of 4 went out as groups of 4, 4 and 2,
\* with failed and successful calls among them
C6_Witness ==
  /\ enr[1].pc = "returned"
  /\ Len(enr[1].items) = 10
  /\ enr[1].batchSize = 4
  /\ enr[1].groups = <<4, 4, 2>>
  /\ \E j, j2 \in 1..10 :
       /\ enr[1].failed[j]
       /\ enr[1].calls[j2] = "settled" /\ ~enr[1].failed[j2]

\* C7: in two runs that differ only in the victim's call being answered
\* 429, every other trajectory settles to the same entry, whatever the
\* order the calls complete in.
C7_OthersUnaffected ==
  victim # 0 =>
    \A j \in 1..Len(enr[1].items) :
      LET a == EntryOf(enr[1], j)
          b == EntryOf(enr[2], j)
      IN  (/\ j # victim
           /\ a.st \in {"fulfilled", "rejected"}
           /\ b.st \in {"fulfilled", "rejected"}) => a = b

\* C7 witness: items 1 and 2 shared a batch; the victim, item 2, got its
\* winds in the first run and 429 in the second, and item 1 got winds and
\* a risk in both
C7_Witness ==
  /\ victim = 2
  /\ enr[1].pc = "returned" /\ enr[2].pc = "returned"
  /\ enr[1].batchSize = 2
  /\ WindKeys \subseteq enr[1].out[2].patch.keys
  /\ enr[2].out[2].patch.keys \cap WindKeys = {}
  /\ WindKeys \subseteq enr[2].out[1].patch.keys
  /\ enr[2].out[1].patch.risk.k = "num"

\* C8: a failed wind call leaves its trajectory a fulfilled entry without
\* any wind field; no task is rejected, and enrichInBatches returns only
\* with an entry for every item and every wind call settled.
C8_FailedCallGivesEmptyWinds ==
  \A c \in Cycles :
    LET e == enr[c]
        n == Len(e.items)
    IN  e.pc # "idle" =>
          /\ \A j \in 1..n :
               /\ EntryOf(e, j).st # "rejected"
               /\ e.failed[j] =>
                    /\ EntryOf(e, j).st = "fulfilled"
                    /\ EntryOf(e, j).id = e.items[j].id
                    /\ EntryOf(e, j).patch.keys \cap WindKeys = {}
                    /\ ~Present(EntryOf(e, j).patch.wind500)
                    /\ ~Present(EntryOf(e, j).patch.dir500)
                    /\ ~Present(EntryOf(e, j).patch.wind700)
                    /\ ~Present(EntryOf(e, j).patch.dir700)
          /\ e.pc = "returned" =>
               /\ Len(e.out) = n
               /\ \A j \in 1..n :
                    /\ e.out[j].st = "fulfilled"
                    /\ e.items[j].points # <<>> => e.calls[j] = "settled"

\* C8 witness: the first call failed, and a call of the same batch and one
\* of a later batch still brought winds
C8_Witness ==
  /\ enr[1].pc = "returned"
  /\ enr[1].batchSize = 2
  /\ Len(enr[1].items) >= 4
  /\ enr[1].failed[1]
  /\ ~enr[1].failed[2] /\ WindKeys \subseteq enr[1].out[2].patch.keys
  /\ ~enr[1].failed[4] /\ WindKeys \subseteq enr[1].out[4].patch.keys

(***************************************************************************)
(* Properties of the application (Spec).                                   *)
(***************************************************************************)
InProgress(c) == loads[c].pc \in {"fetching", "fetched", "enriching"}

\* C9 (as claimed): at most one invocation of load is in progress.
C9_OneLoadAtATime ==
  Cardinality({c \in Cycles : InProgress(c)}) <= 1

\* C10 (as claimed): in the published list, a trajectory past the first
\* ENRICH_SUBSET has no risk and no wind field.
C10_OutsideSubsetAbsent ==
  \A i \in 1..Len(tracks) :
    i > ENRICH_SUBSET =>
      /\ ~Present(tracks[i].risk)
      /\ ~Present(tracks[i].wind500) /\ ~Present(tracks[i].dir500)
      /\ ~Present(tracks[i].wind700) /\ ~Present(tracks[i].dir700)

(***************************************************************************)
(* Functions called on their own.  call holds the arguments and, once the  *)
(* function has returned, its result; the application is at rest.          *)
(***************************************************************************)
AppIdle ==
  /\ tracks = <<>>
  /\ ingestStats = NoStats
  /\ mounted = FALSE
  /\ loads = [c \in Cycles |-> IdleLoad]
  /\ enr = [c \in Cycles |-> IdleEnr]
  /\ answer = <<>>
  /\ victim = 0
  /\ PlaybackIdle

Called(fn, args) == [pc |-> "called", fn |-> fn, args |-> args]
Returned(fn, args, result) ==
  [pc |-> "returned", fn |-> fn, args |-> args, result |-> result]

(***************************************************************************)
(* SpecRisk: computeRisk over drift speeds, headings, wind directions and  *)
(* wind speeds, present or absent.                                         *)
(***************************************************************************)
\* 0, 1.25, 33.3, 99.5, 100, 250 km/h, and 1000 * 1 / 8 = 125 km/h
RiskDrifts ==
  {NoDrift, Drift(1, 0, 1), Drift(1, 5, 4), Drift(1, 333, 10),
   Drift(1, 199, 2), Drift(1, 100, 1), Drift(1, 250, 1), Drift(1000, 1, 8)}
RiskHeadings == {Undef, Num(0), Num(90), Num(342)}
RiskDirs700 == {Undef, Null, Num(270), Num(-30)}
RiskDirs500 == {Undef, Num(200), Num(400)}
RiskWinds700 == {Undef, Null, Num(45), Num(20)}
RiskWinds500 == {Undef, Num(10), Num(50)}

RiskArgs ==
  [driftKmh : RiskDrifts, headingDeg : RiskHeadings, dir700 : RiskDirs700,
   dir500 : RiskDirs500, wind700 : RiskWinds700, wind500 : RiskWinds500]

InitRisk ==
  /\ AppIdle
  /\ call \in {Called("computeRisk", a) : a \in RiskArgs}

RiskReturn ==
  /\ call.pc = "called" /\ call.fn = "computeRisk"
  /\ call' = Returned("computeRisk", call.args,
                      computeRisk(call.args.driftKmh, call.args.headingDeg,
                                  call.args.dir700, call.args.dir500,
                                  call.args.wind700, call.args.wind500))
  /\ UNCHANGED <<tracks, ingestStats, mounted, loads, enr, answer, victim, playback>>

RiskNext == RiskReturn

SpecRisk == InitRisk /\ [][RiskNext]_vars

\* the angle between two directions, in degrees: the shorter way round
\* the circle (% is the mathematical modulus, never negative)
Turn(x, y) ==
  LET t == (x - y) % 360
  IN  IF t <= 180 THEN t ELSE 360 - t

\* the heading-vs-wind mismatch of the arguments, -1 when there is none:
\* the 700 hPa direction is used when present, else the 500 hPa one
MismatchOf(a) ==
  LET dir == IF Present(a.dir700) THEN a.dir700 ELSE a.dir500
  IN  IF Present(a.headingDeg) /\ Present(dir)
      THEN Turn(a.headingDeg.v, dir.v) ELSE -1

\* the wind shear of the arguments, -1 when a speed is absent
ShearOf(a) ==
  IF Present(a.wind700) /\ Present(a.wind500)
  THEN (IF a.wind700.v >= a.wind500.v THEN a.wind700.v - a.wind500.v
        ELSE a.wind500.v - a.wind700.v)
  ELSE -1

\* r = round((0.4*d + 0.4*m + 0.2*s) * 100), that is
\* r - 1/2 <= 40*d + 40*m + 20*s < r + 1/2, with d = min(drift / 100, 1),
\* m = min(mismatch / 90, 1) and s = min(shear / 30, 1), absent m and s
\* counting 0; every term is multiplied by 18 * 100 * den
RoundsTo(r, a) ==
  LET dd == 100 * a.driftKmh.den
      dv == a.driftKmh.mul * a.driftKmh.num
      dn == IF dv >= dd THEN dd ELSE dv
      mm == MismatchOf(a)
      mc == IF mm < 0 THEN 0 ELSE IF mm >= 90 THEN 90 ELSE mm
      sh == ShearOf(a)
      sc == IF sh < 0 THEN 0 ELSE IF sh >= 30 THEN 30 ELSE sh
      twice == 720 * dn + 8 * mc * dd + 12 * sc * dd
  IN  (2 * r - 1) * 9 * dd <= twice /\ twice < (2 * r + 1) * 9 * dd

\* C11: computeRisk returns undefined exactly when drift is absent;
\* otherwise an integer in 0..100, round((0.4*d + 0.4*m + 0.2*s) * 100)
\* with d, m and s clamped to [0, 1].
C11_RiskFormula ==
  call.pc = "returned" =>
    /\ ~call.args.driftKmh.has <=> ~Present(call.result)
    /\ call.args.driftKmh.has =>
         /\ call.result.k = "num"
         /\ call.result.v \in 0..100
         /\ RoundsTo(call.result.v, call.args)

\* C11 witness: a drift of 1.25 km/h, on the rounding boundary, with a
\* mismatch and a shear both over their caps, gave 61
C11_Witness ==
  /\ call.pc = "returned"
  /\ call.args.driftKmh = Drift(1, 5, 4)
  /\ MismatchOf(call.args) > 90
  /\ ShearOf(call.args) > 30
  /\ call.result = Num(61)

\* the drift of a is at most that of b
DriftLe(a, b) ==
  a.driftKmh.mul * a.driftKmh.num * b.driftKmh.den
    <= b.driftKmh.mul * b.driftKmh.num * a.driftKmh.den

\* b is a with one of drift, mismatch and shear raised, the other two as
\* they are
RaisedOne(a, b) ==
  \/ /\ DriftLe(a, b)
     /\ MismatchOf(a) = MismatchOf(b) /\ ShearOf(a) = ShearOf(b)
  \/ /\ 0 <= MismatchOf(a) /\ MismatchOf(a) <= MismatchOf(b)
     /\ a.driftKmh = b.driftKmh /\ ShearOf(a) = ShearOf(b)
  \/ /\ 0 <= ShearOf(a) /\ ShearOf(a) <= ShearOf(b)
     /\ a.driftKmh = b.driftKmh /\ MismatchOf(a) = MismatchOf(b)

RiskOf(a) ==
  computeRisk(a.driftKmh, a.headingDeg, a.dir700, a.dir500, a.wind700,
              a.wind500)

\* the arguments that differ from a in the drift alone, in the heading and
\* directions alone, or in the wind speeds alone
Variations(a) ==
  {[a EXCEPT !.driftKmh = d] : d \in RiskDrifts \ {NoDrift}}
  \cup {[a EXCEPT !.headingDeg = q[1], !.dir700 = q[2], !.dir500 = q[3]] :
          q \in RiskHeadings \X RiskDirs700 \X RiskDirs500}
  \cup {[a EXCEPT !.wind700 = q[1], !.wind500 = q[2]] :
          q \in RiskWinds700 \X RiskWinds500}

\* C12: raising the drift, the mismatch or the shear, the other two held,
\* never lowers the risk computeRisk returns.
C12_RiskMonotone ==
  (call.pc = "returned" /\ call.args.driftKmh.has) =>
    \A b \in Variations(call.args) :
      RaisedOne(call.args, b) => call.result.v <= RiskOf(b).v

\* C12 witness: a call with drift, mismatch and shear all under their
\* caps, so that each can be raised to a higher risk
C12_Witness ==
  /\ call.pc = "returned"
  /\ call.args.driftKmh = Drift(1, 333, 10)
  /\ MismatchOf(call.args) = 72
  /\ ShearOf(call.args) = 10
  /\ \E b \in Variations(call.args) :
       RaisedOne(call.args, b) /\ call.result.v < RiskOf(b).v

(***************************************************************************)
(* SpecRow: the rows of one successful hour, through normalizeRow.         *)
(***************************************************************************)
RowNullLat == ArrRow(<<Null, Num(1), Num(12)>>)
RowShort == ArrRow(<<Num(3)>>)
RowTextLat == ArrRow(<<Str("x"), Num(0)>>)
RowNullLatitude ==
  ObjRow([NoKeys EXCEPT !.id = Str("A"), !.latitude = Null, !.lon = Num(0)])

HourBodyRows ==
  {RowA, RowNoIdNoTime, RowFar, RowPos, RowNoLat, RowNullLat, RowShort,
   RowTextLat, RowNullLatitude, OtherRow}

\* the bodies of one hour: one or two rows
HourBodies == UNION {[1..m -> HourBodyRows] : m \in 1..2}

InitRow ==
  /\ AppIdle
  /\ call \in {Called("hourRows", [body |-> b, hourIdx |-> h, now |-> Now]) :
                 b \in HourBodies, h \in LiveHours}

\* the callback of results.forEach for one fulfilled hour
RowReturn ==
  /\ call.pc = "called" /\ call.fn = "hourRows"
  /\ call' = Returned("hourRows", call.args,
                      HourStep([byId |-> <<>>, totalRows |-> 0, keptRows |-> 0],
                               HourPromise(HourRows(call.args.body)),
                               call.args.hourIdx, call.args.now))
  /\ UNCHANGED <<tracks, ingestStats, mounted, loads, enr, answer, victim, playback>>

RowNext == RowReturn

SpecRow == InitRow /\ [][RowNext]_vars

\* the latitude and longitude values a row carries, before any conversion
RawLat(row) ==
  IF row.shape = "obj" THEN Coalesce(row.f.lat, row.f.latitude)
  ELSE IF row.shape = "arr" /\ Len(row.elems) >= 1 THEN row.elems[1]
  ELSE Undef

RawLon(row) ==
  IF row.shape = "obj"
  THEN Coalesce(Coalesce(row.f.lon, row.f.lng), row.f.longitude)
  ELSE IF row.shape = "arr" /\ Len(row.elems) >= 2 THEN row.elems[2]
  ELSE Undef

\* a keyed record, or a positional row of two elements or more, whose
\* latitude and longitude values are finite numbers
HasFiniteCoords(row) ==
  /\ row.shape = "obj" \/ (row.shape = "arr" /\ Len(row.elems) >= 2)
  /\ RawLat(row).k = "num"
  /\ RawLon(row).k = "num"

\* C13 (as claimed): of the rows of an hour, exactly those with finite
\* latitude and longitude values give a point, each with the id,
\* coordinates and timestamp normalizeRow gives it; every other row is
\* rejected, alone.
C13_OnlyFiniteRowsAccepted ==
  (call.pc = "returned" /\ call.fn = "hourRows") =>
    LET body == call.args.body
        good == {r \in 1..Len(body) : HasFiniteCoords(body[r])}
    IN  /\ call.result.keptRows = Cardinality(good)
        /\ \A r \in good :
             LET n == normalizeRow(body[r], call.args.hourIdx, r - 1,
                                   call.args.now)
             IN  \E i \in 1..Len(call.result.byId) :
                   /\ call.result.byId[i].id = n.id
                   /\ \E a \in 1..Len(call.result.byId[i].points) :
                        call.result.byId[i].points[a] =
                          [lat |-> RawLat(body[r]).v,
                           lon |-> RawLon(body[r]).v, ts |-> n.ts]

(***************************************************************************)
(* Properties of the ingest statistics (SpecIngest).                       *)
(***************************************************************************)
\* the rows in the bodies of the successful hours of load c, as
\* <<hour, index from 1>>
RowsAt(c) ==
  {q \in LiveHours \X (1..MaxRows) :
     loads[c].live[q[1]].fail = "" /\ q[2] <= Len(loads[c].live[q[1]].rows)}

\* what normalizeRow made of row q of load c
NormalizedAt(c, q) ==
  normalizeRow(RowNamed(loads[c].live[q[1]].rows[q[2]]), q[1], q[2] - 1,
               ClockOf(c, q[1]))

\* C14: stats.raw counts every row of the successful hours, accepted or
\* not; stats.kept counts the rows normalizeRow accepted, so kept <= raw;
\* stats.balloons counts the distinct ids of the returned map.
C14_StatsCount ==
  \A c \in Cycles :
    Fetched(c) =>
      LET res == loads[c].fetched
          accepted == {q \in RowsAt(c) : NormalizedAt(c, q).ok}
          ids == {NormalizedAt(c, q).id : q \in accepted}
      IN  /\ res.stats.raw = Cardinality(RowsAt(c))
          /\ res.stats.kept = Cardinality(accepted)
          /\ res.stats.kept <= res.stats.raw
          /\ res.stats.balloons = Cardinality(ids)
          /\ {res.byId[i].id : i \in 1..Len(res.byId)} = ids
          /\ Len(res.byId) = Cardinality(ids)

\* C14 witness: three rows, one of them rejected, the two accepted of one
\* id
C14_Witness ==
  /\ Fetched(1)
  /\ loads[1].live[5] = Rows(<<"A", "NoLat">>)
  /\ loads[1].live[17] = Rows(<<"ATextTime">>)
  /\ loads[1].fetched.stats = [raw |-> 3, kept |-> 2, balloons |-> 1]

(***************************************************************************)
(* SpecTrack: the callback of Object.entries(byId).map in load, over point *)
(* lists as fetchLast24h returns them (timestamps strictly increasing),    *)
(* and over the empty list the callback also provides for.                 *)
(***************************************************************************)
MaxPoints == 3

TrackCoords == {<<0, 0>>, <<0, 1>>, <<3, 0>>, <<95, 200>>}
TrackTimes == {Now - 7200, Now - 3601, Now - 3600, Now + 500}

TrackPoints ==
  {[lat |-> c[1], lon |-> c[2], ts |-> t] : c \in TrackCoords, t \in TrackTimes}

PointLists ==
  {pts \in UNION {[1..m -> TrackPoints] : m \in 0..MaxPoints} :
     \A i \in 1..(Len(pts) - 1) : pts[i].ts < pts[i + 1].ts}

InitTrack ==
  /\ AppIdle
  /\ call \in {Called("track", [id |-> "A", points |-> pts, nowSec |-> Now]) :
                 pts \in PointLists}

TrackReturn ==
  /\ call.pc = "called" /\ call.fn = "track"
  /\ call' = Returned("track", call.args,
                      Track(call.args.id, call.args.points, call.args.nowSec))
  /\ UNCHANGED <<tracks, ingestStats, mounted, loads, enr, answer, victim, playback>>

TrackNext == TrackReturn

SpecTrack == InitTrack /\ [][TrackNext]_vars

\* C15: without points the age is absent and stale is false; otherwise
\* age_sec = max(0, now - timestamp of the last point) and stale is true
\* exactly when age_sec > 3600.
C15_AgeAndStale ==
  (call.pc = "returned" /\ call.fn = "track") =>
    LET pts == call.args.points
        n == Len(pts)
        d == call.args.nowSec - pts[n].ts
        age == IF d > 0 THEN d ELSE 0
    IN  /\ n = 0 => ~Present(call.result.ageSec) /\ ~call.result.stale
        /\ n > 0 => /\ call.result.ageSec = Num(age)
                    /\ call.result.stale <=> age > 3600

\* C15 witness: the last point is 3601 s old, the trajectory is stale
C15_Witness ==
  /\ call.pc = "returned" /\ call.fn = "track"
  /\ Len(call.args.points) = 2
  /\ call.result.ageSec = Num(3601)
  /\ call.result.stale

RECURSIVE Gcd(_, _)
Gcd(x, y) == IF y = 0 THEN x ELSE Gcd(y, x % y)

\* the ratio num / den in lowest terms (den > 0)
Lowest(num, den) == <<num \div Gcd(num, den), den \div Gcd(num, den)>>

\* C16: with fewer than 2 points drift and heading are absent, gap_km = 0
\* and gap is false; with 2 or more, gap_km is the distance between the
\* last two points, gap is true exactly when gap_km > 300, and the drift is
\* gap_km / max((last.ts - prev.ts) / 3600, 1e-6) km/h, which for whole
\* seconds dt >= 1 is (gapM / 1000) / (dt / 3600) = 18 * gapM / (5 * dt).
C16_GapAndDrift ==
  (call.pc = "returned" /\ call.fn = "track") =>
    LET pts == call.args.points
        n == Len(pts)
        r == call.result
        dt == pts[n].ts - pts[n - 1].ts
    IN  /\ n < 2 => /\ ~r.driftKmh.has
                    /\ ~Present(r.headingDeg)
                    /\ r.gapM = 0
                    /\ ~r.gap
        /\ n >= 2 => /\ r.gapM = haversineMeters(pts[n - 1], pts[n])
                     /\ r.gap <=> r.gapM > 300 * 1000
                     /\ r.driftKmh.has
                     /\ dt >= 1
                     /\ Lowest(r.driftKmh.mul * r.driftKmh.num, r.driftKmh.den)
                          = Lowest(18 * r.gapM, 5 * dt)

\* C16 witness: three points, the first far away; the last two are 111 km
\* and one second apart: no gap, and a drift of 400302 km/h
C16_Witness ==
  /\ call.pc = "returned" /\ call.fn = "track"
  /\ Len(call.args.points) = 3
  /\ call.args.points[1].lat = 95
  /\ call.result.gapM = 111195
  /\ ~call.result.gap
  /\ Lowest(call.result.driftKmh.num, call.result.driftKmh.den) = <<400302, 1>>

(***************************************************************************)
(* SpecWindow: the windowed data of one render, for one trajectory of the  *)
(* published list.                                                         *)
(***************************************************************************)
\* hoursBack, and the clock of the render
WindowHours == {1, 2, 24}
RenderTimes == {Now, Now + 4200}

\* a point strictly after the cutoff
AfterCutoff(p, cutoff) == p.ts > cutoff

\* p => p.ts >= cutoff
InWindow(p, cutoff) == p.ts >= cutoff

\* nowSec - (hoursBack * 3600)
Cutoff(nowSec, hours) == nowSec - (hours * 3600)

\* t => ({ ...t, _winPts: t.points.filter(p => p.ts >= cutoff) })
Windowed(t, cutoff) ==
  [winPts |-> SelectSeq(t.points, LAMBDA p : InWindow(p, cutoff))] @@ t

InitWindow ==
  /\ AppIdle
  /\ call \in {Called("windowed",
                      [t |-> Track("A", pts, Now), nowSec |-> n,
                       hoursBack |-> h]) :
                 pts \in PointLists \ {<<>>}, n \in RenderTimes,
                 h \in WindowHours}

WindowReturn ==
  /\ call.pc = "called" /\ call.fn = "windowed"
  /\ call' = Returned("windowed", call.args,
                      Windowed(call.args.t,
                               Cutoff(call.args.nowSec, call.args.hoursBack)))
  /\ UNCHANGED <<tracks, ingestStats, mounted, loads, enr, answer, victim, playback>>

WindowNext == WindowReturn

SpecWindow == InitWindow /\ [][WindowNext]_vars

\* C17: the windowed points are exactly the points with timestamp >=
\* cutoff, in their order: a suffix of the trajectory, possibly empty; the
\* trajectory itself, its point list included, is as it was.
C17_WindowIsSuffix ==
  (call.pc = "returned" /\ call.fn = "windowed") =>
    LET pts == call.args.t.points
        n == Len(pts)
        cutoff == call.args.nowSec - call.args.hoursBack * 3600
        w == call.result.winPts
    IN  /\ \E k \in 1..(n + 1) :
             /\ w = SubSeq(pts, k, n)
             /\ \A i \in 1..n : i >= k <=> pts[i].ts >= cutoff
        /\ call.result.points = pts
        /\ \A key \in DOMAIN call.args.t : call.result[key] = call.args.t[key]

\* C17 witness: of three points the last two are kept, the first of them
\* exactly at the cutoff
C17_Witness ==
  /\ call.pc = "returned" /\ call.fn = "windowed"
  /\ Len(call.args.t.points) = 3
  /\ Len(call.result.winPts) = 2
  /\ call.result.winPts[1].ts = call.args.nowSec - call.args.hoursBack * 3600

(***************************************************************************)
(* SpecAngle: angleDelta on a pair of angles, in the two orders.           *)
(***************************************************************************)
Angles ==
  {Undef, Null, Num(0), Num(10), Num(180), Num(190), Num(350), Num(-30),
   Num(400), Num(720)}

InitAngle ==
  /\ AppIdle
  /\ call \in {Called("angleDelta", [a |-> x, b |-> y]) : x, y \in Angles}

AngleReturn ==
  /\ call.pc = "called" /\ call.fn = "angleDelta"
  /\ call' = Returned("angleDelta", call.args,
                      [ab |-> angleDelta(call.args.a, call.args.b),
                       ba |-> angleDelta(call.args.b, call.args.a)])
  /\ UNCHANGED <<tracks, ingestStats, mounted, loads, enr, answer, victim, playback>>

AngleNext == AngleReturn

SpecAngle == InitAngle /\ [][AngleNext]_vars

\* C18: angleDelta(a, b) = angleDelta(b, a), and with both angles present
\* the result is a number in [0, 180].
C18_AngleDeltaSymmetric ==
  (call.pc = "returned" /\ call.fn = "angleDelta") =>
    /\ call.result.ab = call.result.ba
    /\ (Present(call.args.a) /\ Present(call.args.b)) =>
         /\ call.result.ab.k = "num"
         /\ 0 <= call.result.ab.v /\ call.result.ab.v <= 180

\* C18 witness: 350 and -30 degrees, 380 apart, are 20 degrees from each
\* other in either order
C18_Witness ==
  /\ call.pc = "returned" /\ call.fn = "angleDelta"
  /\ call.args = [a |-> Num(-30), b |-> Num(350)]
  /\ call.result = [ab |-> Num(20), ba |-> Num(20)]

(***************************************************************************)
(* SpecRelay: the relay handler.  A request has its method, the segments   *)
(* after the prefix (req.query.path, "none" when it is not an array) and   *)
(* its query string; a URL is kept as host, segments and query string.     *)
(***************************************************************************)
RelayMethods == {"GET", "POST", "HEAD"}
RelayPaths == {<<"treasure", "05.json">>, <<"treasure">>, <<>>}
RelayQueries == {"", "x=1"}

RelayRequests ==
  [method : RelayMethods, isArray : BOOLEAN, path : RelayPaths,
   search : RelayQueries]

\* what the upstream answers: fetch throws, or a response with its status,
\* its content-type header (Null when it has none) and its body
UpstreamAnswers ==
  {[net |-> "err", status |-> 0, ctype |-> Null, body |-> ""]}
  \cup [net : {"ok"}, status : {200, 404, 429, 500},
        ctype : {Null, Str("application/json"), Str("text/html")},
        body : {"[]", "<html>"}]

\* fetch(upstream, { cache: "no-store", headers: {...} }): no method is
\* given, so GET; the URL is the host and the joined segments alone
UpstreamRequest(req) ==
  [method |-> "GET", host |-> "a.windbornesystems.com",
   path |-> IF req.isArray THEN req.path ELSE <<>>, search |-> ""]

\* r.headers.get("content-type") || "application/json; charset=utf-8"
ContentTypeOf(up) ==
  IF Present(up.ctype) /\ up.ctype.s # "" THEN up.ctype.s
  ELSE "application/json; charset=utf-8"

\* the response of the handler to the upstream's answer
RelayResponse(up) ==
  IF up.net = "err"
  THEN [status |-> 502, ctype |-> "application/json; charset=utf-8",
        body |-> "proxy_upstream_failed"]
  ELSE [status |-> up.status, ctype |-> ContentTypeOf(up), body |-> up.body]

InitRelay ==
  /\ AppIdle
  /\ call \in {Called("handler", r) : r \in RelayRequests}

\* handler up to its await of fetch
RelaySend ==
  /\ call.pc = "called" /\ call.fn = "handler"
  /\ call' = [pc |-> "awaiting", fn |-> "handler", args |-> call.args,
              sent |-> UpstreamRequest(call.args)]
  /\ UNCHANGED <<tracks, ingestStats, mounted, loads, enr, answer, victim, playback>>

\* the upstream answers and the handler responds
RelayAnswer(up) ==
  /\ call.pc = "awaiting" /\ call.fn = "handler"
  /\ call' = [pc |-> "returned", fn |-> "handler", args |-> call.args,
              sent |-> call.sent, up |-> up, result |-> RelayResponse(up)]
  /\ UNCHANGED <<tracks, ingestStats, mounted, loads, enr, answer, victim, playback>>

RelayNext ==
  \/ RelaySend
  \/ \E up \in UpstreamAnswers : RelayAnswer(up)

SpecRelay == InitRelay /\ [][RelayNext]_vars

\* C19 (as claimed): the request sent upstream has the method and the
\* query string of the incoming request, and the response has the
\* upstream's status, content-type and body.
C19_TransparentRelay ==
  /\ (call.pc \in {"awaiting", "returned"} /\ call.fn = "handler") =>
       /\ call.sent.method = call.args.method
       /\ call.sent.search = call.args.search
  /\ (call.pc = "returned" /\ call.fn = "handler" /\ call.up.net = "ok") =>
       /\ call.result.status = call.up.status
       /\ Str(call.result.ctype) = call.up.ctype
       /\ call.result.body = call.up.body

(***************************************************************************)
(* Risk of the published trajectories (Spec).                              *)
(***************************************************************************)
\* C20 (as claimed): once no load is in progress, every published
\* trajectory with a risk has the risk computeRisk gives for its own
\* published drift, heading and wind fields.
C20_RiskMatchesPublished ==
  (\A c \in Cycles : ~InProgress(c)) =>
    \A i \in 1..Len(tracks) :
      Present(tracks[i].risk) =>
        tracks[i].risk =
          computeRisk(tracks[i].driftKmh, tracks[i].headingDeg,
                      tracks[i].dir700, tracks[i].dir500,
                      tracks[i].wind700, tracks[i].wind500)

(***************************************************************************)
(* Duplicate timestamps in fetchLast24h (SpecIngest).                      *)
(***************************************************************************)
\* the accepted rows of load c, as <<hour, row index>>, that carry id and ts
Occurrences(c, id, ts) ==
  {o \in UNION {{<<h, r>> : r \in 0..(Len(loads[c].live[h].rows) - 1)} :
                  h \in LiveHours} :
     LET n == normalizeRow(RowNamed(loads[c].live[o[1]].rows[o[2] + 1]),
                           o[1], o[2], ClockOf(c, o[1]))
     IN  n.ok /\ n.id = id /\ n.ts = ts}

\* the first of them in encounter order: lowest hour, then lowest row
FirstOf(occ) ==
  CHOOSE o \in occ :
    \A o2 \in occ : o[1] < o2[1] \/ (o[1] = o2[1] /\ o[2] <= o2[2])

\* the points of the trajectory of id with timestamp ts
PointsAt(byId, id, ts) ==
  UNION {{<<i, a>> : a \in {b \in 1..Len(byId[i].points) :
                               byId[i].points[b].ts = ts}} :
         i \in {j \in 1..Len(byId) : byId[j].id = id}}

\* C21: of the accepted rows of one id with one timestamp, the trajectory
\* keeps exactly one point, the point of the row met first: lowest hour
\* index, and within the hour lowest row index.
C21_FirstEncounteredWins ==
  \A c \in Cycles : Fetched(c) =>
    \A h \in LiveHours : \A r \in 0..(Len(loads[c].live[h].rows) - 1) :
      LET n == normalizeRow(RowNamed(loads[c].live[h].rows[r + 1]), h, r,
                            ClockOf(c, h))
          byId == loads[c].fetched.byId
      IN  n.ok =>
            LET first == FirstOf(Occurrences(c, n.id, n.ts))
                kept == normalizeRow(
                          RowNamed(loads[c].live[first[1]].rows[first[2] + 1]),
                          first[1], first[2], ClockOf(c, first[1]))
                at == PointsAt(byId, n.id, n.ts)
            IN  /\ Cardinality(at) = 1
                /\ \A x \in at : byId[x[1]].points[x[2]] = PointOf(kept)

\* C21 witness: hour 17 carries id A at 72000 twice, at latitude 0 then 3,
\* and hour 05 carries it at latitude 3, synthesized to 72000 as well; the
\* one point kept is hour 05's
C21_Witness ==
  /\ Fetched(1)
  /\ loads[1].live[5] = Rows(<<"ATextTime">>)
  /\ loads[1].live[17] = Rows(<<"A", "A">>)
  /\ ClockOf(1, 5) - 5 * 3600 = 72000
  /\ loads[1].fetched.stats.kept = 3
  /\ loads[1].fetched.byId = <<[id |-> "A",
                                points |-> <<[lat |-> 3, lon |-> 0,
                                              ts |-> 72000]>>]>>

(***************************************************************************)
(* SpecSettle: one call of enrichInBatches in which every wind call        *)
(* settles, with winds or with a failure, and the await of a settled batch *)
(* resumes.                                                                *)
(***************************************************************************)
MaxSettleItems == 5
MaxSettleBatch == 3

SettleWinds == {WindNetErr, Wind429, WindBadJson, WindFull, WindPartial}

SettleNext ==
  \/ \E n \in 0..MaxSettleItems, b \in 1..MaxSettleBatch, sh \in 0..2 :
       EnrichCall(1, ItemList(n, sh), b)
  \/ \E k \in 1..MaxSettleBatch, r \in SettleWinds : WindSettle(1, k, r)
  \/ BatchDone(1)

\* fetch settles every wind call; the microtask queue resumes the await
SettleFairness ==
  /\ \A k \in 1..MaxSettleBatch :
       WF_vars(\E r \in SettleWinds : WindSettle(1, k, r))
  /\ WF_vars(BatchDone(1))

SpecSettle == Init /\ [][SettleNext]_vars /\ SettleFairness

\* the result holds one settled entry per item, in item order, each with
\* the id of its item
OnePerItem(e) ==
  /\ Len(e.out) = Len(e.items)
  /\ \A j \in 1..Len(e.items) :
       /\ e.out[j].st \in {"fulfilled", "rejected"}
       /\ e.out[j].id = e.items[j].id

\* C22: when every wind call settles, a call of enrichInBatches returns,
\* and its result holds exactly one settled entry per input trajectory, in
\* input order, each carrying that trajectory's id.
C22_ReturnsOnePerItem ==
  /\ [](enr[1].pc = "returned" => OnePerItem(enr[1]))
  /\ (enr[1].pc = "awaiting") ~> (enr[1].pc = "returned")

\* C22 witness: five items in batches of two have all settled, the first
\* call failed, the second brought winds, and the call has returned
C22_Witness ==
  /\ enr[1].pc = "returned"
  /\ Len(enr[1].items) = 5
  /\ enr[1].batchSize = 2
  /\ enr[1].groups = <<2, 2, 1>>
  /\ enr[1].failed[1]
  /\ ~enr[1].failed[2] /\ enr[1].calls[2] = "settled"
  /\ [j \in 1..5 |-> enr[1].out[j].id] = <<"b0", "b1", "b2", "b3", "b4">>

(***************************************************************************)
(* SpecPlay: the playback controls and the playback timer.  A click is     *)
(* taken with the render and the effects it brings about; call holds the   *)
(* handler that ran last, the state it found and the window it left.       *)
(***************************************************************************)
\* the ids setInterval may hand out
MaxTimers == 2
TimerIds == 1..MaxTimers

\* Math.min(24, Math.max(1, h))
ClampHours(h) == Min(24, Max(1, h))

\* the timer's updater with no wrap at 1
PlayStepNoWrap(h) == h - PLAY_STEP_H

\* (h) => (h > 1 ? h - PLAY_STEP_H : DEFAULT_WINDOW_H)
PlayStep(h) == IF h > 1 THEN h - PLAY_STEP_H ELSE DEFAULT_WINDOW_H

\* the state a handler finds
Found == [hoursBack |-> hoursBack, playing |-> playing]

\* onChange of the range input (min 1, max 24): e.target.value is the
\* decimal text of v, and Number gives v back
SliderChange(v) ==
  /\ hoursBack' = v
  /\ call' = Returned("slider", Found, v)
  /\ UNCHANGED <<tracks, ingestStats, mounted, loads, enr, answer, victim,
                 playing, playTimerRef, intervals>>

\* onClick of +1h
PlusHour ==
  /\ hoursBack' = ClampHours(hoursBack + 1)
  /\ call' = Returned("plus", Found, hoursBack')
  /\ UNCHANGED <<tracks, ingestStats, mounted, loads, enr, answer, victim,
                 playing, playTimerRef, intervals>>

\* onClick of -1h
MinusHour ==
  /\ hoursBack' = ClampHours(hoursBack - 1)
  /\ call' = Returned("minus", Found, hoursBack')
  /\ UNCHANGED <<tracks, ingestStats, mounted, loads, enr, answer, victim,
                 playing, playTimerRef, intervals>>

\* onClick of 24h
ResetWindow ==
  /\ hoursBack' = DEFAULT_WINDOW_H
  /\ call' = Returned("reset", Found, hoursBack')
  /\ UNCHANGED <<tracks, ingestStats, mounted, loads, enr, answer, victim,
                 playing, playTimerRef, intervals>>

\* onClick of Play/Pause: setPlaying(p => !p), and the playback effect of
\* the render that follows.  Turning off, the cleanup of the last effect
\* clears the interval and the ref; turning on, the effect sets an interval
\* and keeps its id in the ref.
TogglePlay ==
  /\ playing' = ~playing
  /\ IF playing
     THEN /\ intervals' = intervals \ {playTimerRef}
          /\ playTimerRef' = 0
     ELSE \E id \in TimerIds \ intervals :
            /\ intervals' = intervals \cup {id}
            /\ playTimerRef' = id
  /\ call' = Returned("toggle", Found, hoursBack)
  /\ UNCHANGED <<tracks, ingestStats, mounted, loads, enr, answer, victim,
                 hoursBack>>

\* an interval that is set and not cleared fires: its callback runs
PlayTick(id) ==
  /\ id \in intervals
  /\ hoursBack' = PlayStep(hoursBack)
  /\ call' = Returned("tick", Found, hoursBack')
  /\ UNCHANGED <<tracks, ingestStats, mounted, loads, enr, answer, victim,
                 playing, playTimerRef, intervals>>

PlayNext ==
  \/ \E v \in 1..24 : SliderChange(v)
  \/ PlusHour
  \/ MinusHour
  \/ ResetWindow
  \/ TogglePlay
  \/ \E id \in TimerIds : PlayTick(id)

SpecPlay == Init /\ [][PlayNext]_vars

\* C23: whatever the slider changes, +1h, -1h, reset, play/pause clicks and
\* playback ticks, hoursBack is an integer from 1 to 24; a tick lowers it
\* by 1 when it is above 1 and sets it to 24 when it is 1; and a tick
\* occurs, and can occur, only while playing is true.
C23_WindowBounded ==
  /\ hoursBack \in 1..24
  /\ intervals # {} => playing
  /\ (call.pc = "returned" /\ call.fn = "tick") =>
       /\ call.args.playing
       /\ call.result =
            IF call.args.hoursBack > 1 THEN call.args.hoursBack - 1 ELSE 24

\* C23 witness: playback is on and a tick has just wrapped the window from
\* 1 to 24
C23_Witness ==
  /\ playing
  /\ call.pc = "returned" /\ call.fn = "tick"
  /\ call.args.hoursBack = 1
  /\ hoursBack = 24

====
